---------------------------- MODULE Spec2Model ----------------------------
(***************************************************************************)
(* Client-side session / token lifecycle of the single-page application:   *)
(* the AuthService singleton (src/src/lib/auth.ts), the part of the        *)
(* ApiClient it consumes (src/src/lib/api.ts) and the session context's    *)
(* login / logout handlers (src/src/contexts/AuthContext.tsx).             *)
(*                                                                         *)
(* Execution model: one browser event loop.  Every action below is one     *)
(* macrotask (a user call, a timer firing, the arrival of a network        *)
(* response) together with the chain of promise continuations it makes     *)
(* runnable; continuations run as microtasks before the next macrotask.    *)
(***************************************************************************)
EXTENDS Integers, Sequences, FiniteSets, Bags, TLC

(***************************************************************************)
(* Bounds of the model.                                                    *)
(***************************************************************************)
\* largest expiry claim (unix seconds) carried by a token of the model
MaxExp == 2
\* number of calls that may be awaiting a network response at once
MaxInflight == 2
\* size of the pool of timer ids handed out by setTimeout
MaxTimers == 3
\* largest number of dot-separated segments of a token given to the codec
MaxSegs == 4
\* longest password given to the validator
MaxPwdLen == 9

(***************************************************************************)
(* Strings.  A string that may be used as a token is the sequence of its   *)
(* dot-separated segments; a segment is abstracted by what the decoder     *)
(* makes of it.  JavaScript null is the empty sequence: no string splits   *)
(* into zero segments ("" splits into one empty segment).                  *)
(***************************************************************************)
Seg(k, e) == [k |-> k, e |-> e]

Null == <<>>

\* the empty string ""
EmptyStr == <<Seg("empty", 0)>>

\* the string "undefined": what localStorage.setItem stores for a missing value
UndefinedStr == <<Seg("undefined", 0)>>

\* a payload segment whose decoded JSON object carries exp = e
ExpPayload(e) == Seg("exp", e)

\* a three-segment token header.payload.signature; id tells tokens apart
JWT(payload, id) == <<Seg("hdr", 0), payload, Seg("sig", id)>>

\* a well-formed access token expiring at e seconds
AccessTok(e) == JWT(ExpPayload(e), e)

\* an opaque refresh token
RefreshTok(i) == <<Seg("opaque", i)>>

\* JavaScript truthiness of a string-or-null value
Truthy(s) == s # Null /\ s # EmptyStr

(***************************************************************************)
(* Token codec.                                                            *)
(***************************************************************************)
\* kinds of middle segment on which atob, decodeURIComponent or JSON.parse throws
ThrowingKinds == {"empty", "b64bad", "utf8bad", "jsonbad", "hdr", "sig",
                  "opaque", "undefined"}

\* decoded claims; k = "null" is JavaScript null
Claims(k, e) == [k |-> k, e |-> e]

DecodedNull == Claims("null", 0)

\* token.split('.')[1] is undefined for a one-segment token, and .replace
\* on it throws; every throw is caught and yields null
decodeJWT(token) ==
    IF Len(token) < 2 THEN DecodedNull
    ELSE IF token[2].k \in ThrowingKinds THEN DecodedNull
    ELSE IF token[2].k = "jnull" THEN DecodedNull
    ELSE Claims(token[2].k, token[2].e)

\* !decoded.exp : exp missing (scalar, object without exp) or exp = 0
ExpFalsy(d) == d.k \in {"scalar", "obj"} \/ (d.k = "exp" /\ d.e = 0)

isTokenExpiredNoExpCheck(token, nowMs) ==
    IF ~Truthy(token) THEN TRUE
    ELSE LET decoded == decodeJWT(token) IN
         IF decoded.k = "null" THEN TRUE
         ELSE IF decoded.k = "exp" THEN nowMs >= decoded.e * 1000
         ELSE FALSE

isTokenExpiredStrict(token, nowMs) ==
    IF ~Truthy(token) THEN TRUE
    ELSE LET decoded == decodeJWT(token) IN
         IF decoded.k = "null" \/ ExpFalsy(decoded) THEN TRUE
         ELSE IF decoded.k = "expstr" THEN FALSE
         ELSE nowMs > decoded.e * 1000

isTokenExpired(token, nowMs) ==
    IF ~Truthy(token) THEN TRUE
    ELSE LET decoded == decodeJWT(token) IN
         IF decoded.k = "null" \/ ExpFalsy(decoded) THEN TRUE
         \* a non-numeric exp multiplies to NaN, and now >= NaN is false
         ELSE IF decoded.k = "expstr" THEN FALSE
         ELSE nowMs >= decoded.e * 1000

(***************************************************************************)
(* Password policy.  A password is the sequence of its characters.         *)
(***************************************************************************)
\* /[A-Z]/, /[a-z]/ and /[0-9]/ by one character each; /[^A-Za-z0-9]/ by a
\* punctuation mark and by a letter outside ASCII
UpperChars == {"A"}

LowerChars == {"a"}

DigitChars == {"1"}

SpecialChars == {"!", "ç"}

\* the minimum of the length rule
MinPasswordLength == 8

Has(p, class) == \E i \in 1..Len(p) : p[i] \in class

validatePasswordUpperFirst(p) ==
    IF ~Has(p, UpperChars) THEN "upper"
    ELSE IF Len(p) < MinPasswordLength THEN "minlen"
    ELSE IF ~Has(p, LowerChars) THEN "lower"
    ELSE IF ~Has(p, DigitChars) THEN "digit"
    ELSE IF ~Has(p, SpecialChars) THEN "special"
    ELSE "valid"

\* the verdict: "valid", or the rule whose error message is returned;
\* !password is the empty password, of length 0
validatePassword(p) ==
    IF Len(p) < MinPasswordLength THEN "minlen"
    ELSE IF ~Has(p, UpperChars) THEN "upper"
    ELSE IF ~Has(p, LowerChars) THEN "lower"
    ELSE IF ~Has(p, DigitChars) THEN "digit"
    ELSE IF ~Has(p, SpecialChars) THEN "special"
    ELSE "valid"

\* string.trim(), for a string whose only whitespace character is " "
RECURSIVE Trim(_)
Trim(s) ==
    IF s = <<>> THEN s
    ELSE IF Head(s) = " " THEN Trim(Tail(s))
    ELSE IF s[Len(s)] = " " THEN Trim(SubSeq(s, 1, Len(s) - 1))
    ELSE s

\* /^[^\s@]+@[^\s@]+\.[^\s@]+$/ : no whitespace, one "@" with text before it,
\* and after it a "." with text on both sides
EmailRegexTest(s) ==
    /\ \A k \in 1..Len(s) : s[k] # " "
    /\ \E i \in 2..Len(s) :
          /\ s[i] = "@"
          /\ \A k \in 1..Len(s) : s[k] = "@" => k = i
          /\ \E j \in (i + 2)..(Len(s) - 1) : s[j] = "."

\* the verdict of validateEmail: "valid", "required" or "invalid"
validateEmail(email) ==
    IF email = <<>> \/ Trim(email) = <<>> THEN "required"
    ELSE IF ~EmailRegexTest(email) THEN "invalid"
    ELSE "valid"

(***************************************************************************)
(* Profiles and API responses.                                             *)
(***************************************************************************)
\* "" stands for a missing / falsy field; inner is the id of the user record
\* nested under the key `user`, 0 when the object has no such key
UserRec(id, role, birthDate, dateOfBirth) ==
    [id |-> id, role |-> role, birthDate |-> birthDate, dateOfBirth |-> dateOfBirth,
     inner |-> 0]

\* null / undefined user
NoUser == UserRec(0, "", "", "")

\* user records as the backend sends them: the backend names the birth date
\* birthDate, older deployments dateOfBirth
ServerUser(i) ==
    IF i % 2 = 1 THEN UserRec(i, "client", "d1", "") ELSE UserRec(i, "admin", "", "d2")

normalizeUser(u) ==
    [u EXCEPT !.dateOfBirth = IF u.birthDate # "" THEN u.birthDate ELSE u.dateOfBirth]

\* what ApiClient.request makes of the server's answer
Raw(kind, at, rt, u) == [kind |-> kind, accessToken |-> at, refreshToken |-> rt, user |-> u]

\* a transport error or timeout, a non-2xx status (404 apart, for the one caller
\* that tells it apart), a 2xx body that is not JSON, and a 204
RawFailures ==
    {Raw(k, Null, Null, NoUser) : k \in {"neterr", "http", "http404", "nojson", "s204"}}

\* a 2xx JSON body: complete, without its tokens, or without its user
RawJson ==
    {Raw("json", AccessTok(e), RefreshTok(e), ServerUser(e)) : e \in 1..MaxExp}
        \cup {Raw("json", Null, Null, ServerUser(1)),
              Raw("json", AccessTok(1), RefreshTok(1), NoUser)}

RawResponses == RawFailures \cup RawJson

\* answers to a request whose caller treats every non-2xx status alike
RawPlain == RawResponses \ {Raw("http404", Null, Null, NoUser)}

\* result of an ApiClient call returning AuthResponse: ok = FALSE is a rejection
ApiResult(ok, at, rt, u) == [ok |-> ok, accessToken |-> at, refreshToken |-> rt, user |-> u]

ApiRejected == ApiResult(FALSE, Null, Null, NoUser)

\* request() rejects on a transport error, a non-2xx status and a body that is
\* not JSON, and returns {} on 204; normalizeUser throws on a missing user
AuthCall(raw) ==
    IF raw.kind \in {"neterr", "http", "http404", "nojson"} THEN ApiRejected
    ELSE IF raw.kind = "s204" THEN ApiRejected
    ELSE IF raw.user = NoUser THEN ApiRejected
    ELSE ApiResult(TRUE, raw.accessToken, raw.refreshToken, normalizeUser(raw.user))

refreshToken(raw) == AuthCall(raw)

\* the object { ...response, user } that getMe returns, seen as a User: it has
\* the keys user and permissions and none of the profile's own
MeObject(u) == [UserRec(0, "", "", "") EXCEPT !.inner = u.id]

\* answers to GET /auth/me: a failure, or a 2xx JSON body with or without user
RawMe ==
    {Raw(k, Null, Null, NoUser) : k \in {"neterr", "http", "nojson", "s204"}}
        \cup {Raw("json", Null, Null, ServerUser(i)) : i \in 1..MaxExp}
        \cup {Raw("json", Null, Null, NoUser)}

\* result of ApiClient.getMe: ok = FALSE is a rejection, data the object returned
MeResult(ok, data) == [ok |-> ok, data |-> data]

getMe(raw) ==
    IF raw.kind \in {"neterr", "http", "http404", "nojson"} THEN MeResult(FALSE, NoUser)
    ELSE IF raw.kind = "s204" \/ raw.user = NoUser THEN MeResult(FALSE, NoUser)
    ELSE MeResult(TRUE, MeObject(normalizeUser(raw.user)))

googleRetriesAnyStatus(raw) == raw.kind \in {"http404", "http"}

\* ApiClient.googleLogin sends its second request exactly on error.status === 404
googleRetries(raw) == raw.kind = "http404"

(***************************************************************************)
(* Session store (localStorage) and the service's timer handle.  The       *)
(* service state s is [ls, refreshTimer, timers, window]: ls the three     *)
(* storage keys, refreshTimer the handle (0 is null), timers the ids of    *)
(* the scheduled refresh callbacks that have neither fired nor been        *)
(* cleared, window whether typeof window !== 'undefined'.                  *)
(***************************************************************************)
\* a stored profile item: k = "none" (no item), "json" (JSON text of v), "corrupt"
Item(k, v) == [k |-> k, v |-> v]

NoItem == Item("none", NoUser)

CorruptItem == Item("corrupt", NoUser)

\* localStorage.setItem converts its value to a string
ToStr(v) == IF v = Null THEN UndefinedStr ELSE v

setTokensAccessOnly(s, accessToken, refreshTok) ==
    [s EXCEPT !.ls.accessToken = ToStr(accessToken)]

setTokensNoGuard(s, accessToken, refreshTok) ==
    [s EXCEPT !.ls.accessToken = ToStr(accessToken),
              !.ls.refreshToken = ToStr(refreshTok)]

setTokens(s, accessToken, refreshTok) ==
    IF s.window
    THEN [s EXCEPT !.ls.accessToken = ToStr(accessToken),
                   !.ls.refreshToken = ToStr(refreshTok)]
    ELSE s

getAccessToken(s) == IF s.window THEN s.ls.accessToken ELSE Null

getRefreshToken(s) == IF s.window THEN s.ls.refreshToken ELSE Null

setUser(s, u) == IF s.window THEN [s EXCEPT !.ls.user = Item("json", u)] ELSE s

\* value returned by getUser
getUser(s) == IF s.window /\ s.ls.user.k = "json" THEN s.ls.user.v ELSE NoUser

getUserEffectKeepsItem(s) == s

\* state left by getUser: an unparseable item is removed
getUserEffect(s) ==
    IF s.window /\ s.ls.user.k = "corrupt" THEN [s EXCEPT !.ls.user = NoItem] ELSE s

stopRefreshTimerKeepPending(s) == [s EXCEPT !.refreshTimer = 0]

stopRefreshTimer(s) ==
    IF s.refreshTimer # 0
    THEN [s EXCEPT !.timers = s.timers \ {s.refreshTimer}, !.refreshTimer = 0]
    ELSE s

clearAuthKeepUser(s) ==
    stopRefreshTimer([s EXCEPT !.ls.accessToken = Null, !.ls.refreshToken = Null])

clearAuthKeepTimer(s) ==
    [s EXCEPT !.ls.accessToken = Null, !.ls.refreshToken = Null, !.ls.user = NoItem]

\* the three keys are removed when there is a window; the timer is stopped either way
clearAuth(s) ==
    stopRefreshTimer(IF s.window
                     THEN [s EXCEPT !.ls.accessToken = Null,
                                    !.ls.refreshToken = Null,
                                    !.ls.user = NoItem]
                     ELSE s)

\* setTimeout returns an id no live timer and no held handle carries
FreshIds(s) == {t \in 1..MaxTimers : t \notin s.timers /\ t # s.refreshTimer}

CanSchedule(s) == FreshIds(s) # {}

NewTimerId(s) == CHOOSE t \in FreshIds(s) : \A u \in FreshIds(s) : t <= u

setTimeoutRefresh(s, id) == [s EXCEPT !.timers = s.timers \cup {id}, !.refreshTimer = id]

startRefreshTimerNoStop(s) == setTimeoutRefresh(s, NewTimerId(s))

startRefreshTimer(s) ==
    LET id == NewTimerId(s) IN setTimeoutRefresh(stopRefreshTimer(s), id)

(***************************************************************************)
(* State.                                                                  *)
(***************************************************************************)
VARIABLES
    localStorage,   \* the keys accessToken, refreshToken and user of the origin's storage
    refreshTimer,   \* AuthService.refreshTimer: a timer id, 0 for null
    timers,         \* ids of the scheduled refresh callbacks not yet fired or cleared
    now,            \* Date.now() in milliseconds
    inflight,       \* bag of the calls suspended on a network request
    user,           \* the session context's user state
    ev,             \* the operation performed by the last step and what it returned
    cTok,           \* codec check: the token given to isTokenExpired
    cRes,           \* codec and validator checks: the result, "none" before the call
    hasWindow,      \* typeof window !== 'undefined': a browser, with its localStorage
    cPwd,           \* validator check: the password given to validatePassword
    isLoading,      \* the session context's isLoading state
    boot,           \* where initializeAuth stands: "idle", an await, or "done"
    nav,            \* the router: current path, what it renders, the paths redirected from
    form            \* the registration form's fields

vars == <<localStorage, refreshTimer, timers, now, inflight, user, ev, cTok, cRes,
          hasWindow, cPwd, isLoading, boot, nav, form>>

Svc == [ls |-> localStorage, refreshTimer |-> refreshTimer, timers |-> timers,
        window |-> hasWindow]

Commit(s) ==
    /\ localStorage' = s.ls
    /\ refreshTimer' = s.refreshTimer
    /\ timers' = s.timers

\* one instant per expiry class: each is the threshold exp * 1000 of the tokens
\* expiring at e, where the comparison is inclusive
ClockPoints == {e * 1000 : e \in 0..MaxExp}

NoRaw == Raw("none", Null, Null, NoUser)

\* a suspended call: op is "refresh", "auth" or "logout"; caller tells who awaits it;
\* pre is the access token ensureValidToken read before refreshing
Call(op, caller, pre) == [op |-> op, caller |-> caller, pre |-> pre]

\* op: the operation; done: it returned in this step; ok: the boolean a refresh
\* (or a remote call) reported, "none" when none settled; ret: the token
\* ensureValidToken returned; raw: the network answer the step consumed;
\* pre: the token ensureValidToken had read before it awaited; rep: for
\* startRefreshTimer, 2 when the step before was a startRefreshTimer too, else 1;
\* usr: the profile a getter returned or a setter was given
EventOf(op, done, ok, ret, raw, pre, n) ==
    [op |-> op, done |-> done, ok |-> ok, ret |-> ret, raw |-> raw, pre |-> pre, rep |-> n,
     usr |-> NoUser]

Event(op, done, ok, ret, raw) == EventOf(op, done, ok, ret, raw, Null, 0)

\* a store operation on the profile returning at once
EventUser(op, u) == [Event(op, TRUE, "none", Null, NoRaw) EXCEPT !.usr = u]

Pending == BagToSet(inflight)

NumInflight == BagCardinality(inflight)

Suspend(c) == inflight (+) SetToBag({c})

Resume(c) == inflight (-) SetToBag({c})

Copies(c, b) == IF c \in DOMAIN b THEN b[c] ELSE 0

InitAccessTokens == {Null, UndefinedStr} \cup {AccessTok(e) : e \in 1..MaxExp}

InitRefreshTokens == {Null, EmptyStr, RefreshTok(1)}

InitUserItems == {NoItem, CorruptItem, Item("json", normalizeUser(ServerUser(1)))}

CodecIdle ==
    /\ cTok = Null
    /\ cRes = "none"

\* the router before anything is rendered
Nav(path, view, visited) == [path |-> path, view |-> view, visited |-> visited]

NoNav == Nav("/", "none", {})

\* a field of the registration form: a sequence of characters
NoForm == [firstName |-> <<>>, lastName |-> <<>>, email |-> <<>>, birthDate |-> 0,
           password |-> <<>>, confirmPassword |-> <<>>]

\* the provider is mounted (isLoading starts true, the effect has not run),
\* nothing is rendered and the form is blank
ViewIdle ==
    /\ isLoading = TRUE
    /\ boot = "idle"
    /\ nav = NoNav
    /\ form = NoForm

\* a fresh page load: storage holds whatever earlier sessions left, no timer is set
Init ==
    /\ localStorage \in [accessToken : InitAccessTokens,
                          refreshToken : InitRefreshTokens,
                          user : InitUserItems]
    /\ refreshTimer = 0
    /\ timers = {}
    /\ now \in ClockPoints
    /\ inflight = EmptyBag
    /\ user = NoUser
    /\ ev = Event("init", FALSE, "none", Null, NoRaw)
    /\ CodecIdle
    /\ hasWindow = TRUE
    /\ cPwd = <<>>
    /\ ViewIdle

(***************************************************************************)
(* AuthService operations.                                                 *)
(***************************************************************************)
Tick ==
    /\ \E n \in ClockPoints : n > now /\ now' = n
    /\ ev' = Event("tick", FALSE, "none", Null, NoRaw)
    /\ UNCHANGED <<localStorage, refreshTimer, timers, inflight, user, cTok, cRes, hasWindow, cPwd, isLoading, boot, nav, form>>

refreshSendsRequestAlways(s) == TRUE

\* refreshAccessToken goes on to the API only with a truthy stored refresh token
refreshSendsRequest(s) == Truthy(getRefreshToken(s))

\* refreshAccessToken up to its await, called by `caller` from service state s
RefreshCall(op, caller, pre, s) ==
    IF refreshSendsRequest(s)
    THEN /\ NumInflight < MaxInflight
         /\ Commit(s)
         /\ inflight' = Suspend(Call("refresh", caller, pre))
         /\ ev' = Event(op, FALSE, "none", Null, NoRaw)
    ELSE /\ Commit(s)
         /\ inflight' = inflight
         /\ ev' = Event(op, TRUE, "false", Null, NoRaw)

refreshSettleNoTimer(s, api) ==
    IF api.ok
    THEN setUser(setTokens(s, api.accessToken, api.refreshToken), api.user)
    ELSE clearAuth(s)

refreshSettleKeepsTokens(s, api) ==
    IF api.ok THEN startRefreshTimer(setUser(s, api.user)) ELSE clearAuth(s)

\* refreshAccessToken after its await: the try block's tail or the catch block
refreshSettle(s, api) ==
    IF api.ok
    THEN startRefreshTimer(setUser(setTokens(s, api.accessToken, api.refreshToken), api.user))
    ELSE clearAuth(s)

needsRefreshIgnoresExpiry(accessToken, nowMs) == ~Truthy(accessToken)

needsRefreshAlways(accessToken, nowMs) == TRUE

\* the test of ensureValidToken: no stored access token, or an expired one
needsRefresh(accessToken, nowMs) == ~Truthy(accessToken) \/ isTokenExpired(accessToken, nowMs)

ensureResultStale(s, refreshed, pre) == IF refreshed THEN pre ELSE Null

\* ensureValidToken after its await: null, or the access token re-read from the store
ensureResult(s, refreshed, pre) == IF refreshed THEN getAccessToken(s) ELSE Null

RefreshAccessToken ==
    /\ RefreshCall("refreshAccessToken", "direct", Null, Svc)
    /\ UNCHANGED <<now, user, cTok, cRes, hasWindow, cPwd, isLoading, boot, nav, form>>

EnsureValidToken ==
    /\ LET accessToken == getAccessToken(Svc) IN
       IF needsRefresh(accessToken, now)
       THEN RefreshCall("ensureValidToken", "ensure", accessToken, Svc)
       ELSE /\ ev' = Event("ensureValidToken", TRUE, "none", accessToken, NoRaw)
            /\ UNCHANGED <<localStorage, refreshTimer, timers, inflight>>
    /\ UNCHANGED <<now, user, cTok, cRes, hasWindow, cPwd, isLoading, boot, nav, form>>

\* the scheduled callback runs: the timer is spent, the handle keeps its id
TimerFire ==
    /\ \E t \in timers :
          RefreshCall("timer", "timer", Null, [Svc EXCEPT !.timers = timers \ {t}])
    /\ UNCHANGED <<now, user, cTok, cRes, hasWindow, cPwd, isLoading, boot, nav, form>>

refreshPendingRetry(c, api) == IF api.ok THEN Resume(c) ELSE inflight

\* the calls in flight once the request of c has settled: refreshAccessToken
\* has no loop and sends nothing more, whatever the outcome
refreshPending(c, api) == Resume(c)

\* the refresh request of the suspended call c is answered with raw
RefreshDone ==
    /\ \E c \in Pending, raw \in RawPlain :
          /\ c.op = "refresh"
          /\ c.caller \in {"direct", "ensure", "timer"}
          /\ LET api == refreshToken(raw)
                 s1 == refreshSettle(Svc, api)
             IN /\ api.ok => CanSchedule(Svc)
                /\ Commit(s1)
                /\ inflight' = refreshPending(c, api)
                /\ ev' = EventOf(IF c.caller = "ensure" THEN "ensureValidToken"
                                  ELSE IF c.caller = "timer" THEN "timer"
                                  ELSE "refreshAccessToken",
                                 TRUE,
                                 IF api.ok THEN "true" ELSE "false",
                                 IF c.caller = "ensure" THEN ensureResult(s1, api.ok, c.pre) ELSE Null,
                                 raw, c.pre, 0)
    /\ UNCHANGED <<now, user, cTok, cRes, hasWindow, cPwd, isLoading, boot, nav, form>>

StartRefreshTimer ==
    /\ CanSchedule(Svc)
    /\ Commit(startRefreshTimer(Svc))
    /\ ev' = EventOf("startRefreshTimer", TRUE, "none", Null, NoRaw, Null,
                     IF ev.op = "startRefreshTimer" THEN 2 ELSE 1)
    /\ UNCHANGED <<now, inflight, user, cTok, cRes, hasWindow, cPwd, isLoading, boot, nav, form>>

StopRefreshTimer ==
    /\ Commit(stopRefreshTimer(Svc))
    /\ ev' = Event("stopRefreshTimer", TRUE, "none", Null, NoRaw)
    /\ UNCHANGED <<now, inflight, user, cTok, cRes, hasWindow, cPwd, isLoading, boot, nav, form>>

ClearAuth ==
    /\ Commit(clearAuth(Svc))
    /\ ev' = Event("clearAuth", TRUE, "none", Null, NoRaw)
    /\ UNCHANGED <<now, inflight, user, cTok, cRes, hasWindow, cPwd, isLoading, boot, nav, form>>

GetUser ==
    /\ Commit(getUserEffect(Svc))
    \* ok = "caught" tells that JSON.parse threw and the catch block ran
    /\ ev' = [EventUser("getUser", getUser(Svc))
                 EXCEPT !.ok = IF getUserEffect(Svc) # Svc THEN "caught" ELSE "none"]
    /\ UNCHANGED <<now, inflight, user, cTok, cRes, hasWindow, cPwd, isLoading, boot, nav, form>>

(***************************************************************************)
(* Session context: login, register, googleLogin and logout.               *)
(***************************************************************************)
AuthKinds == {"login", "register", "googleLogin"}

\* the handler up to its await on the ApiClient call
LoginStart ==
    /\ \E kind \in AuthKinds :
          /\ NumInflight < MaxInflight
          /\ inflight' = Suspend(Call("auth", kind, Null))
          /\ ev' = Event(kind, FALSE, "none", Null, NoRaw)
    /\ UNCHANGED <<localStorage, refreshTimer, timers, now, user, cTok, cRes, hasWindow, cPwd, isLoading, boot, nav, form>>

loginSettleNoTimer(s, api) ==
    setUser(setTokens(s, api.accessToken, api.refreshToken), api.user)

\* tokens and profile are persisted, then the timer is started
loginSettle(s, api) ==
    startRefreshTimer(setUser(setTokens(s, api.accessToken, api.refreshToken), api.user))

\* ApiClient.googleLogin posts once more, to /auth/google, when
\* /auth/login/google answers 404
GoogleFallback ==
    /\ \E c \in Pending, raw \in RawResponses :
          /\ c.op = "auth"
          /\ c.caller = "googleLogin"
          /\ googleRetries(raw)
          /\ inflight' = Resume(c) (+) SetToBag({Call("auth", "googleFallback", Null)})
          /\ ev' = Event("googleLogin", FALSE, "none", Null, raw)
    /\ UNCHANGED <<localStorage, refreshTimer, timers, now, user, cTok, cRes, hasWindow, cPwd, isLoading, boot, nav, form>>

\* the request of the suspended handler c is answered with raw
LoginDone ==
    /\ \E c \in Pending, raw \in RawPlain :
          /\ c.op = "auth"
          /\ c.caller = "googleLogin" => ~googleRetries(raw)
          /\ LET api == AuthCall(raw)
                 op == IF c.caller = "googleFallback" THEN "googleLogin" ELSE c.caller
                 \* rep = 2: the answer is that of googleLogin's second request
                 n == IF c.caller = "googleFallback" THEN 2 ELSE 0
             IN IF api.ok
                THEN /\ CanSchedule(Svc)
                     /\ Commit(loginSettle(Svc, api))
                     /\ user' = api.user
                     /\ inflight' = Resume(c)
                     /\ ev' = EventOf(op, TRUE, "true", Null, raw, Null, n)
                ELSE /\ inflight' = Resume(c)
                     /\ ev' = EventOf(op, TRUE, "false", Null, raw, Null, n)
                     /\ UNCHANGED <<localStorage, refreshTimer, timers, user>>
    /\ UNCHANGED <<now, cTok, cRes, hasWindow, cPwd, isLoading, boot, nav, form>>

\* logout up to its await; without a stored refresh token it runs to its end
LogoutStart ==
    /\ IF Truthy(getRefreshToken(Svc))
       THEN /\ NumInflight < MaxInflight
            /\ inflight' = Suspend(Call("logout", "logout", Null))
            /\ ev' = Event("logout", FALSE, "none", Null, NoRaw)
            /\ UNCHANGED <<localStorage, refreshTimer, timers, user>>
       ELSE /\ Commit(clearAuth(Svc))
            /\ user' = NoUser
            /\ inflight' = inflight
            /\ ev' = Event("logout", TRUE, "none", Null, NoRaw)
    /\ UNCHANGED <<now, cTok, cRes, hasWindow, cPwd, isLoading, boot, nav, form>>

\* the remote logout call settles, either way; the finally block clears the session
LogoutDone ==
    /\ \E c \in Pending, ok \in {"true", "false"} :
          /\ c.op = "logout"
          /\ Commit(clearAuth(Svc))
          /\ user' = NoUser
          /\ inflight' = Resume(c)
          /\ ev' = Event("logout", TRUE, ok, Null, NoRaw)
    /\ UNCHANGED <<now, cTok, cRes, hasWindow, cPwd, isLoading, boot, nav, form>>

\* refreshUser(silentFail) up to its first request: ensureValidToken, then getMe
RefreshUser ==
    /\ \E silent \in BOOLEAN :
          LET accessToken == getAccessToken(Svc)
              caller == IF silent THEN "refreshUserSilent" ELSE "refreshUser"
          IN IF needsRefresh(accessToken, now)
             THEN IF refreshSendsRequest(Svc)
                  THEN /\ NumInflight < MaxInflight
                       /\ inflight' = Suspend(Call("refresh", caller, accessToken))
                       /\ ev' = Event(caller, FALSE, "none", Null, NoRaw)
                       /\ user' = user
                  ELSE /\ inflight' = inflight
                       /\ ev' = Event(caller, TRUE, "false", Null, NoRaw)
                       /\ user' = IF silent THEN user ELSE NoUser
             ELSE /\ NumInflight < MaxInflight
                  /\ inflight' = Suspend(Call("getMe", caller, accessToken))
                  /\ ev' = Event(caller, FALSE, "none", accessToken, NoRaw)
                  /\ user' = user
    /\ UNCHANGED <<localStorage, refreshTimer, timers, now, cTok, cRes, hasWindow, cPwd, isLoading, boot, nav, form>>

\* the refresh request ensureValidToken sent for refreshUser is answered: with a
\* token refreshUser goes on to getMe, without one it returns
RefreshUserRefreshed ==
    /\ \E c \in Pending, raw \in RawPlain :
          /\ c.op = "refresh"
          /\ c.caller \in {"refreshUser", "refreshUserSilent"}
          /\ LET api == refreshToken(raw)
                 s1 == refreshSettle(Svc, api)
                 accessToken == ensureResult(s1, api.ok, c.pre)
             IN /\ api.ok => CanSchedule(Svc)
                /\ Commit(s1)
                /\ IF Truthy(accessToken)
                   THEN /\ inflight' = Resume(c) (+) SetToBag({Call("getMe", c.caller, accessToken)})
                        /\ ev' = Event(c.caller, FALSE, "true", accessToken, raw)
                        /\ user' = user
                   ELSE /\ inflight' = Resume(c)
                        /\ ev' = Event(c.caller, TRUE, "false", Null, raw)
                        /\ user' = IF c.caller = "refreshUserSilent" THEN user ELSE NoUser
    /\ UNCHANGED <<now, cTok, cRes, hasWindow, cPwd, isLoading, boot, nav, form>>

\* GET /auth/me is answered: the object getMe returns becomes the context user
\* and the stored profile; on a rejection the catch block runs
GetMeDone ==
    /\ \E c \in Pending, raw \in RawMe :
          /\ c.op = "getMe"
          /\ c.caller \in {"refreshUser", "refreshUserSilent"}
          /\ LET res == getMe(raw) IN
             IF res.ok
             THEN /\ user' = res.data
                  /\ Commit(setUser(Svc, res.data))
                  /\ ev' = [Event(c.caller, TRUE, "true", Null, raw) EXCEPT !.usr = res.data]
             ELSE /\ IF c.caller = "refreshUserSilent"
                     THEN UNCHANGED <<localStorage, refreshTimer, timers, user>>
                     ELSE /\ Commit(clearAuth(Svc))
                          /\ user' = NoUser
                  /\ ev' = Event(c.caller, TRUE, "false", Null, raw)
          /\ inflight' = Resume(c)
    /\ UNCHANGED <<now, cTok, cRes, hasWindow, cPwd, isLoading, boot, nav, form>>

Next ==
    \/ Tick
    \/ RefreshAccessToken
    \/ EnsureValidToken
    \/ TimerFire
    \/ RefreshDone
    \/ StartRefreshTimer
    \/ StopRefreshTimer
    \/ ClearAuth
    \/ GetUser
    \/ LoginStart
    \/ GoogleFallback
    \/ LoginDone
    \/ LogoutStart
    \/ LogoutDone

Spec == Init /\ [][Next]_vars

\* the session context at work: its handlers, the refresh timer and the clock
NextSession ==
    \/ Tick
    \/ TimerFire
    \/ RefreshDone
    \/ LoginStart
    \/ GoogleFallback
    \/ LoginDone
    \/ LogoutStart
    \/ LogoutDone

SpecSession == Init /\ [][NextSession]_vars

\* the session context fetching the profile, between the timer's refreshes
NextProfile ==
    \/ Tick
    \/ TimerFire
    \/ RefreshDone
    \/ RefreshUser
    \/ RefreshUserRefreshed
    \/ GetMeDone

SpecProfile == Init /\ [][NextProfile]_vars

(***************************************************************************)
(* Session initialisation: the effect initializeAuth of the provider.      *)
(***************************************************************************)
finallyLoadingKept(loading) == loading

\* the finally block of initializeAuth: setIsLoading(false)
finallyLoading(loading) == FALSE

\* initializeAuth has run to its end
InitEnds ==
    /\ isLoading' = finallyLoading(isLoading)
    /\ boot' = "done"

\* initializeAuth up to its first await, or to its end when it awaits nothing
InitializeAuth ==
    /\ boot = "idle"
    /\ LET s0 == getUserEffect(Svc)
           storedUser == getUser(Svc)
           accessToken == getAccessToken(s0)
       IN IF ~Truthy(accessToken)
          THEN /\ Commit(s0)
               /\ user' = storedUser
               /\ inflight' = inflight
               /\ ev' = Event("initializeAuth", TRUE, "none", Null, NoRaw)
               /\ InitEnds
          ELSE IF isTokenExpired(accessToken, now)
          THEN IF refreshSendsRequest(s0)
               THEN /\ Commit(s0)
                    /\ user' = storedUser
                    /\ inflight' = Suspend(Call("refresh", "init", Null))
                    /\ ev' = Event("initializeAuth", FALSE, "none", Null, NoRaw)
                    /\ boot' = "refresh"
                    /\ isLoading' = TRUE
               ELSE /\ Commit(clearAuth(s0))
                    /\ user' = NoUser
                    /\ inflight' = inflight
                    /\ ev' = Event("initializeAuth", TRUE, "false", Null, NoRaw)
                    /\ InitEnds
          ELSE IF storedUser # NoUser
          THEN \* refreshUser(true) is left running; the timer is started
               /\ Commit(startRefreshTimer(s0))
               /\ user' = storedUser
               /\ inflight' = Suspend(Call("getMe", "refreshUserSilent", accessToken))
               /\ ev' = Event("initializeAuth", TRUE, "none", accessToken, NoRaw)
               /\ InitEnds
          ELSE \* refreshUser() is raced against a 5 s timeout
               /\ Commit(s0)
               /\ user' = storedUser
               /\ inflight' = Suspend(Call("getMe", "initRace", accessToken))
               /\ ev' = Event("initializeAuth", FALSE, "none", accessToken, NoRaw)
               /\ boot' = "race"
               /\ isLoading' = TRUE
    /\ UNCHANGED <<now, cTok, cRes, hasWindow, cPwd, nav, form>>

\* the refresh request of initializeAuth is answered: on success refreshUser()
\* is awaited, on failure the session is cleared
InitRefreshed ==
    /\ boot = "refresh"
    /\ \E c \in Pending, raw \in RawPlain :
          /\ c.op = "refresh"
          /\ c.caller = "init"
          /\ LET api == refreshToken(raw)
                 s1 == refreshSettle(Svc, api)
                 accessToken == getAccessToken(s1)
             IN IF ~api.ok
                THEN /\ Commit(clearAuth(s1))
                     /\ user' = NoUser
                     /\ inflight' = Resume(c)
                     /\ ev' = Event("initializeAuth", TRUE, "false", Null, raw)
                     /\ InitEnds
                ELSE /\ CanSchedule(Svc)
                     /\ Commit(s1)
                     /\ IF needsRefresh(accessToken, now)
                        THEN IF refreshSendsRequest(s1)
                             THEN /\ inflight' = Resume(c) (+)
                                        SetToBag({Call("refresh", "initUser", accessToken)})
                                  /\ user' = user
                                  /\ ev' = Event("initializeAuth", FALSE, "true", Null, raw)
                                  /\ boot' = "user"
                                  /\ isLoading' = TRUE
                             ELSE /\ inflight' = Resume(c)
                                  /\ user' = NoUser
                                  /\ ev' = Event("initializeAuth", TRUE, "true", Null, raw)
                                  /\ InitEnds
                        ELSE /\ inflight' = Resume(c) (+)
                                   SetToBag({Call("getMe", "initUser", accessToken)})
                             /\ user' = user
                             /\ ev' = Event("initializeAuth", FALSE, "true", accessToken, raw)
                             /\ boot' = "user"
                             /\ isLoading' = TRUE
    /\ UNCHANGED <<now, cTok, cRes, hasWindow, cPwd, nav, form>>

\* the refresh request sent by the ensureValidToken of the awaited refreshUser()
\* is answered
InitUserRefreshed ==
    /\ boot = "user"
    /\ \E c \in Pending, raw \in RawPlain :
          /\ c.op = "refresh"
          /\ c.caller = "initUser"
          /\ LET api == refreshToken(raw)
                 s1 == refreshSettle(Svc, api)
                 accessToken == ensureResult(s1, api.ok, c.pre)
             IN /\ api.ok => CanSchedule(Svc)
                /\ Commit(s1)
                /\ IF Truthy(accessToken)
                   THEN /\ inflight' = Resume(c) (+)
                              SetToBag({Call("getMe", "initUser", accessToken)})
                        /\ user' = user
                        /\ ev' = Event("initializeAuth", FALSE, "true", accessToken, raw)
                        /\ UNCHANGED <<boot, isLoading>>
                   ELSE /\ inflight' = Resume(c)
                        /\ user' = NoUser
                        /\ ev' = Event("initializeAuth", TRUE, "false", Null, raw)
                        /\ InitEnds
    /\ UNCHANGED <<now, cTok, cRes, hasWindow, cPwd, nav, form>>

\* GET /auth/me of the refreshUser() that initializeAuth awaits, or raced, is
\* answered; if initializeAuth still waits for it, it runs to its end
InitGetMeDone ==
    /\ \E c \in Pending, raw \in RawMe :
          /\ c.op = "getMe"
          /\ c.caller \in {"initUser", "initRace"}
          /\ LET res == getMe(raw)
                 s1 == IF res.ok THEN setUser(Svc, res.data) ELSE clearAuth(Svc)
                 waited == (c.caller = "initUser" /\ boot = "user")
                 raced == (c.caller = "initRace" /\ boot = "race")
             IN /\ user' = IF res.ok THEN res.data ELSE NoUser
                /\ raced => CanSchedule(s1)
                /\ Commit(IF raced THEN startRefreshTimer(s1) ELSE s1)
                /\ inflight' = Resume(c)
                /\ ev' = [Event("initializeAuth", TRUE, IF res.ok THEN "true" ELSE "false",
                                 Null, raw) EXCEPT !.usr = user']
                /\ IF waited \/ raced THEN InitEnds ELSE UNCHANGED <<boot, isLoading>>
    /\ UNCHANGED <<now, cTok, cRes, hasWindow, cPwd, nav, form>>

\* the 5 s timeout wins the race: the timer is started and initializeAuth ends,
\* while refreshUser() goes on
InitRaceTimeout ==
    /\ boot = "race"
    /\ CanSchedule(Svc)
    /\ Commit(startRefreshTimer(Svc))
    /\ ev' = Event("initializeAuth", TRUE, "timeout", Null, NoRaw)
    /\ InitEnds
    /\ UNCHANGED <<now, inflight, user, cTok, cRes, hasWindow, cPwd, nav, form>>

NextBoot ==
    \/ InitializeAuth
    \/ InitRefreshed
    \/ InitUserRefreshed
    \/ InitGetMeDone
    \/ InitRaceTimeout
    \/ GetMeDone
    \/ Tick
    \/ TimerFire
    \/ RefreshDone

SpecBoot == Init /\ [][NextBoot]_vars

\* the effect runs once the provider is mounted; every request is answered or
\* aborted by its 30 s timeout; the race's 5 s timeout fires
SpecBootFair ==
    /\ Init
    /\ [][NextBoot]_vars
    /\ WF_vars(InitializeAuth)
    /\ WF_vars(InitRefreshed)
    /\ WF_vars(InitUserRefreshed)
    /\ WF_vars(InitGetMeDone)
    /\ WF_vars(InitRaceTimeout)

(***************************************************************************)
(* Routing: the route table, the route guard and the pages' redirect.      *)
(***************************************************************************)
isAdmin(u) == u.role = "admin"

isCustomer(u) == u.role = "customer"

isAuthenticated(u) == u # NoUser

\* where redirectToDashboard navigates to
redirectToDashboard(u) ==
    IF u = NoUser THEN "/"
    ELSE IF u.role = "admin" THEN "/dashboard/admin"
    ELSE "/dashboard/client"

\* what an element renders: a view, or a navigation to another path
Shows(view) == [view |-> view, to |-> ""]

Navigates(to) == [view |-> "redirect", to |-> to]

ProtectedRouteNoAdminCheck(requireAdmin, requireClient, loading, u) ==
    IF loading THEN Shows("spinner")
    ELSE IF ~isAuthenticated(u) THEN Navigates("/")
    ELSE IF requireClient /\ ~isCustomer(u) THEN Navigates("/dashboard/admin")
    ELSE Shows("children")

ProtectedRoute(requireAdmin, requireClient, loading, u) ==
    IF loading THEN Shows("spinner")
    ELSE IF ~isAuthenticated(u) THEN Navigates("/")
    ELSE IF requireAdmin /\ ~isAdmin(u) THEN Navigates("/dashboard/client")
    ELSE IF requireClient /\ ~isCustomer(u) THEN Navigates("/dashboard/admin")
    ELSE Shows("children")

\* the login and registration pages: a spinner while loading; their effect
\* sends an authenticated user to the dashboard
PublicPage(loading, u) ==
    IF loading THEN Shows("spinner")
    ELSE IF isAuthenticated(u) THEN Navigates(redirectToDashboard(u))
    ELSE Shows("page")

Paths == {"/", "/cadastro", "/dashboard/client", "/dashboard/admin", "/other"}

\* the route table of App; "/other" stands for every path the wildcard matches
Routes(path, loading, u) ==
    IF path \in {"/", "/cadastro"} THEN PublicPage(loading, u)
    ELSE IF path = "/dashboard/client" THEN ProtectedRoute(FALSE, TRUE, loading, u)
    ELSE IF path = "/dashboard/admin" THEN ProtectedRoute(TRUE, FALSE, loading, u)
    ELSE Navigates("/")

\* the context user as the router may find it: none, a profile with one of the
\* roles a server may report, or an object without a role
RouteUsers ==
    {NoUser, UserRec(1, "client", "d1", "d1"), UserRec(2, "admin", "", "d2"),
     UserRec(3, "customer", "d1", "d1"), MeObject(ServerUser(1))}

InitRoute ==
    /\ localStorage = [accessToken |-> Null, refreshToken |-> Null, user |-> NoItem]
    /\ refreshTimer = 0
    /\ timers = {}
    /\ inflight = EmptyBag
    /\ ev = Event("init", FALSE, "none", Null, NoRaw)
    /\ now = 0
    /\ CodecIdle
    /\ hasWindow = TRUE
    /\ cPwd = <<>>
    /\ form = NoForm
    /\ user \in RouteUsers
    /\ isLoading \in BOOLEAN
    /\ boot = (IF isLoading THEN "idle" ELSE "done")
    /\ \E path \in Paths : nav = Nav(path, "none", {})

\* the router renders the element of the current path; a navigation to a path
\* it was already redirected from repeats without end
Render ==
    /\ nav.view = "none"
    /\ LET out == Routes(nav.path, isLoading, user) IN
       nav' = IF out.view # "redirect" THEN [nav EXCEPT !.view = out.view]
              ELSE IF out.to \in nav.visited \cup {nav.path}
              THEN Nav(out.to, "loop", nav.visited \cup {nav.path})
              ELSE Nav(out.to, "none", nav.visited \cup {nav.path})
    /\ UNCHANGED <<localStorage, refreshTimer, timers, now, inflight, user, ev, cTok, cRes,
                   hasWindow, cPwd, isLoading, boot, form>>

\* the visitor opens a path
Visit ==
    /\ nav.view \notin {"none", "loop"}
    /\ \E path \in Paths : nav' = Nav(path, "none", {})
    /\ UNCHANGED <<localStorage, refreshTimer, timers, now, inflight, user, ev, cTok, cRes,
                   hasWindow, cPwd, isLoading, boot, form>>

\* initialisation ends and the spinner gives way to the route's element
LoadingEnds ==
    /\ isLoading
    /\ nav.view = "spinner"
    /\ isLoading' = FALSE
    /\ boot' = "done"
    /\ nav' = Nav(nav.path, "none", {})
    /\ UNCHANGED <<localStorage, refreshTimer, timers, now, inflight, user, ev, cTok, cRes,
                   hasWindow, cPwd, form>>

NextRoute ==
    \/ Render
    \/ Visit
    \/ LoadingEnds

SpecRoute == InitRoute /\ [][NextRoute]_vars

(***************************************************************************)
(* Registration form: handleSubmit of the registration page.               *)
(***************************************************************************)
\* today's date; dates are day numbers, 0 the empty string
Today == 2

\* JavaScript undefined where a string is expected
Undefined == <<"undefined">>

\* the verdict of handleSubmit's checks, in their order
formVerdict(f) ==
    IF f.firstName = <<>> \/ Len(Trim(f.firstName)) < 2 THEN "firstName"
    ELSE IF f.lastName = <<>> \/ Len(Trim(f.lastName)) < 2 THEN "lastName"
    ELSE IF validateEmail(f.email) # "valid" THEN "email"
    ELSE IF f.birthDate = 0 THEN "birthDateRequired"
    ELSE IF f.birthDate > Today THEN "birthDateFuture"
    ELSE IF f.password # f.confirmPassword THEN "mismatch"
    ELSE IF validatePassword(f.password) # "valid" THEN "password"
    ELSE "valid"

\* the object handleSubmit passes to register: it has the keys firstName,
\* lastName and birthDate; the keys name and dateOfBirth of RegisterData are
\* not among them
registerArgs(f) ==
    [name |-> Undefined, dateOfBirth |-> -1,
     firstName |-> Trim(f.firstName), lastName |-> Trim(f.lastName),
     email |-> Trim(f.email), password |-> f.password,
     confirmPassword |-> f.confirmPassword, birthDate |-> f.birthDate]

\* ApiClient.register builds its request from data.name.trim(): on an object
\* without name that throws a TypeError before any request is made
registerThrows(data) == data.name = Undefined

FormNames == {<<>>, <<" ", "a", " ">>, <<"A", "n">>}

FormEmails ==
    {<<>>, <<" ">>, <<"a", "@", "a", ".", "a">>, <<"a", "@", "a">>,
     <<"a", " ", "@", "a", ".", "a">>, <<"@", "a", ".", "a">>}

FormPasswords ==
    {<<"A", "a", "1", "!", "a", "a", "a", "a">>, <<"A", "a", "1", "!", "a", "a", "a">>,
     <<"a", "a", "1", "!", "a", "a", "a", "a">>}

Forms ==
    [firstName : FormNames, lastName : FormNames \ {<<>>}, email : FormEmails,
     birthDate : 0..(Today + 1), password : FormPasswords,
     confirmPassword : FormPasswords \ {<<"a", "a", "1", "!", "a", "a", "a", "a">>}]

InitForm ==
    /\ localStorage = [accessToken |-> Null, refreshToken |-> Null, user |-> NoItem]
    /\ refreshTimer = 0
    /\ timers = {}
    /\ inflight = EmptyBag
    /\ user = NoUser
    /\ ev = Event("init", FALSE, "none", Null, NoRaw)
    /\ now = 0
    /\ CodecIdle
    /\ hasWindow = TRUE
    /\ cPwd = <<>>
    /\ isLoading = FALSE
    /\ boot = "done"
    /\ nav = Nav("/cadastro", "page", {})
    /\ form \in Forms

\* handleSubmit: the checks, then register; cRes is the checks' verdict, ev.ok
\* tells whether the request was sent ("sent") or register threw ("threw")
Submit ==
    /\ ev.op = "init"
    /\ cRes' = formVerdict(form)
    /\ IF formVerdict(form) # "valid"
       THEN /\ inflight' = inflight
            /\ ev' = Event("submit", TRUE, "none", Null, NoRaw)
       ELSE IF registerThrows(registerArgs(form))
       THEN /\ inflight' = inflight
            /\ ev' = Event("submit", TRUE, "threw", Null, NoRaw)
       ELSE /\ inflight' = Suspend(Call("auth", "register", Null))
            /\ ev' = Event("submit", FALSE, "sent", Null, NoRaw)
    /\ UNCHANGED <<localStorage, refreshTimer, timers, now, user, cTok, hasWindow, cPwd,
                   isLoading, boot, nav, form>>

NextForm == Submit

SpecForm == InitForm /\ [][NextForm]_vars

(***************************************************************************)
(* Session store contract: the AuthService operations called one by one,   *)
(* inside a browser and outside one.                                       *)
(***************************************************************************)
\* outside a browser a global localStorage may still exist and hold items;
\* the guarded operations never look at it
InitStore ==
    /\ hasWindow \in BOOLEAN
    /\ localStorage \in [accessToken : InitAccessTokens,
                          refreshToken : InitRefreshTokens,
                          user : InitUserItems]
    /\ refreshTimer = 0
    /\ timers = {}
    /\ now \in ClockPoints
    /\ inflight = EmptyBag
    /\ user = NoUser
    /\ ev = Event("init", FALSE, "none", Null, NoRaw)
    /\ CodecIdle
    /\ cPwd = <<>>
    /\ ViewIdle

SetTokens ==
    /\ \E e \in 1..MaxExp :
          /\ Commit(setTokens(Svc, AccessTok(e), RefreshTok(e)))
          /\ ev' = Event("setTokens", TRUE, "none", AccessTok(e), NoRaw)
    /\ UNCHANGED <<now, inflight, user, cTok, cRes, hasWindow, cPwd, isLoading, boot, nav, form>>

SetUser ==
    /\ \E i \in 1..MaxExp :
          /\ Commit(setUser(Svc, normalizeUser(ServerUser(i))))
          /\ ev' = EventUser("setUser", normalizeUser(ServerUser(i)))
    /\ UNCHANGED <<now, inflight, user, cTok, cRes, hasWindow, cPwd, isLoading, boot, nav, form>>

GetAccessToken ==
    /\ ev' = Event("getAccessToken", TRUE, "none", getAccessToken(Svc), NoRaw)
    /\ UNCHANGED <<localStorage, refreshTimer, timers, now, inflight, user, cTok, cRes,
                   hasWindow, cPwd, isLoading, boot, nav, form>>

GetRefreshToken ==
    /\ ev' = Event("getRefreshToken", TRUE, "none", getRefreshToken(Svc), NoRaw)
    /\ UNCHANGED <<localStorage, refreshTimer, timers, now, inflight, user, cTok, cRes,
                   hasWindow, cPwd, isLoading, boot, nav, form>>

NextStore ==
    \/ SetTokens
    \/ SetUser
    \/ GetAccessToken
    \/ GetRefreshToken
    \/ GetUser
    \/ ClearAuth
    \/ RefreshAccessToken
    \/ EnsureValidToken
    \/ RefreshDone

SpecStore == InitStore /\ [][NextStore]_vars

(***************************************************************************)
(* Codec check: isTokenExpired applied to one token at one instant.        *)
(***************************************************************************)
\* what the middle segment of a token may hold
PayloadSegs ==
    {Seg(k, 0) : k \in {"empty", "b64bad", "utf8bad", "jsonbad", "jnull", "scalar",
                        "obj", "expstr"}}
        \cup {ExpPayload(e) : e \in (-1)..MaxExp}

RECURSIVE Pad(_, _)
Pad(segs, n) == IF Len(segs) >= n THEN segs ELSE Pad(Append(segs, Seg("sig", 0)), n)

\* the token of n segments whose payload segment is p (the only segment when n = 1)
TokenOf(n, p) == IF n = 1 THEN <<p>> ELSE Pad(<<Seg("hdr", 0), p>>, n)

CodecTokens == {Null} \cup {TokenOf(n, p) : n \in 1..MaxSegs, p \in PayloadSegs}

CodecClock == {e * 1000 + d : e \in 0..MaxExp, d \in {-1, 0, 1}} \ {-1}

InitCodec ==
    /\ localStorage = [accessToken |-> Null, refreshToken |-> Null, user |-> NoItem]
    /\ refreshTimer = 0
    /\ timers = {}
    /\ inflight = EmptyBag
    /\ user = NoUser
    /\ ev = Event("init", FALSE, "none", Null, NoRaw)
    /\ now \in CodecClock
    /\ cTok \in CodecTokens
    /\ cRes = "none"
    /\ hasWindow = TRUE
    /\ cPwd = <<>>
    /\ ViewIdle

IsTokenExpired ==
    /\ cRes = "none"
    /\ cRes' = IF isTokenExpired(cTok, now) THEN "true" ELSE "false"
    /\ UNCHANGED <<localStorage, refreshTimer, timers, now, inflight, user, ev, cTok, hasWindow, cPwd, isLoading, boot, nav, form>>

\* decodeJWT applied to the token: "null" for a null result, "claims" for decoded
\* claims; the catch block leaves no way for it to throw
DecodeJWT ==
    /\ ev.op = "init"
    /\ ev' = Event("decodeJWT", TRUE,
                   IF decodeJWT(cTok).k = "null" THEN "null" ELSE "claims", Null, NoRaw)
    /\ UNCHANGED <<localStorage, refreshTimer, timers, now, inflight, user, cTok, cRes,
                   hasWindow, cPwd, isLoading, boot, nav, form>>

NextCodec ==
    \/ IsTokenExpired
    \/ DecodeJWT

SpecCodec == InitCodec /\ [][NextCodec]_vars

(***************************************************************************)
(* Validator check: validatePassword applied to one password.              *)
(***************************************************************************)
RECURSIVE Rep(_, _)
Rep(ch, n) == IF n = 0 THEN <<>> ELSE <<ch>> \o Rep(ch, n - 1)

\* the regular expressions test for the presence of a character, not for its
\* place: one password per count of characters of each kind
Passwords ==
    {Rep("A", a) \o Rep("a", b) \o Rep("1", c) \o Rep("!", d) \o Rep("ç", f) :
        <<a, b, c, d, f>> \in {q \in (0..MaxPwdLen) \X (0..MaxPwdLen) \X (0..MaxPwdLen)
                                        \X (0..2) \X (0..1) :
                                  q[1] + q[2] + q[3] + q[4] + q[5] <= MaxPwdLen}}

InitPwd ==
    /\ localStorage = [accessToken |-> Null, refreshToken |-> Null, user |-> NoItem]
    /\ refreshTimer = 0
    /\ timers = {}
    /\ inflight = EmptyBag
    /\ user = NoUser
    /\ ev = Event("init", FALSE, "none", Null, NoRaw)
    /\ now = 0
    /\ CodecIdle
    /\ hasWindow = TRUE
    /\ cPwd \in Passwords
    /\ ViewIdle

ValidatePassword ==
    /\ cRes = "none"
    /\ cRes' = validatePassword(cPwd)
    /\ UNCHANGED <<localStorage, refreshTimer, timers, now, inflight, user, ev, cTok,
                   hasWindow, cPwd, isLoading, boot, nav, form>>

NextPwd == ValidatePassword

SpecPwd == InitPwd /\ [][NextPwd]_vars

(***************************************************************************)
(* Properties.                                                             *)
(***************************************************************************)
\* the operations that run refreshAccessToken
RefreshOps == {"refreshAccessToken", "timer", "ensureValidToken"}

\* the last step settled a refreshAccessToken call on a network answer
RefreshSettled == ev.op \in RefreshOps /\ ev.done /\ ev.raw # NoRaw

RefreshSettledNext == ev'.op \in RefreshOps /\ ev'.done /\ ev'.raw # NoRaw

\* the last step was ensureValidToken returning to its caller
EnsureReturned == ev.op = "ensureValidToken" /\ ev.done

StoreEmpty ==
    /\ getAccessToken(Svc) = Null
    /\ getRefreshToken(Svc) = Null
    /\ getUser(Svc) = NoUser
    /\ localStorage.user = NoItem

\* a refresh answer that is no usable AuthResponse: a transport error or timeout,
\* a non-2xx status, no body, a body that is not JSON, or JSON lacking a part
RawIsFailure(raw) ==
    \/ raw.kind \in {"neterr", "http", "http404", "nojson", "s204"}
    \/ raw.kind = "json" /\ (raw.accessToken = Null \/ raw.refreshToken = Null \/ raw.user = NoUser)

RawIsSuccess(raw) ==
    raw.kind = "json" /\ raw.accessToken # Null /\ raw.refreshToken # Null /\ raw.user # NoUser

\* C1 (as stated): whenever ensureValidToken returns a token, isTokenExpired
\* reports that token as not expired at the moment of return.
C1_NeverReturnsExpired ==
    (EnsureReturned /\ ev.ret # Null) => ~isTokenExpired(ev.ret, now)

\* C1 (amended): a token ensureValidToken returns without refreshing is not
\* expired at the moment of return; a token it returns after a refresh is the
\* access token the refresh answer carried, as stored, whatever its expiry.
C1_ReturnsValidOrRefreshed ==
    (EnsureReturned /\ ev.ret # Null) =>
        IF ev.raw = NoRaw
        THEN ~isTokenExpired(ev.ret, now)
        ELSE ev.ok = "true" /\ ev.ret = ToStr(ev.raw.accessToken)

C1_Witness ==
    /\ EnsureReturned
    /\ ev.raw = NoRaw
    /\ ev.ret # Null
    /\ ev.ret = getAccessToken(Svc)

\* C2 (as stated): after any refreshAccessToken call that returns false, the
\* access token, the refresh token and the profile all read as absent.
C2_FailureLeavesStoreEmpty ==
    (ev.op \in RefreshOps /\ ev.done /\ ev.ok = "false") => StoreEmpty

\* C2 (amended): after a refreshAccessToken call that returns false, no usable
\* refresh token is stored; if the call had sent its request, the access token,
\* the refresh token and the profile all read as absent.
C2_FailedRequestLeavesStoreEmpty ==
    (ev.op \in RefreshOps /\ ev.done /\ ev.ok = "false") =>
        /\ ~Truthy(getRefreshToken(Svc))
        /\ ev.raw # NoRaw => StoreEmpty

C2_Witness ==
    /\ RefreshSettled
    /\ ev.ok = "false"
    /\ ev.raw.kind = "http"
    /\ StoreEmpty

\* C3: a refreshAccessToken call whose request fails in any way (transport error,
\* timeout, non-2xx status, malformed body) returns false and leaves no token, no
\* profile and no pending refresh timer.
C3_AnyFailureClearsSession ==
    (RefreshSettled /\ RawIsFailure(ev.raw)) =>
        /\ ev.ok = "false"
        /\ StoreEmpty
        /\ refreshTimer = 0
        /\ timers = {}

\* C4: a refreshAccessToken call whose request succeeds stores exactly the
\* answer's access token, refresh token and profile, leaves exactly one pending
\* refresh timer, a newly scheduled one, and returns true.
C4_Step ==
    (RefreshSettledNext /\ RawIsSuccess(ev'.raw)) =>
        /\ ev'.ok = "true"
        /\ localStorage'.accessToken = ev'.raw.accessToken
        /\ localStorage'.refreshToken = ev'.raw.refreshToken
        /\ localStorage'.user = Item("json", normalizeUser(ev'.raw.user))
        /\ timers' = {refreshTimer'}
        /\ refreshTimer' \notin timers \cup {0, refreshTimer}

C4_SuccessStoresResponse == [][C4_Step]_vars

C4_Witness ==
    /\ RefreshSettled
    /\ RawIsSuccess(ev.raw)
    /\ ev.ok = "true"
    /\ ev.raw.accessToken = AccessTok(2)
    /\ refreshTimer = 2

\* the step invokes refreshAccessToken: directly, from the timer callback, or
\* from ensureValidToken on an absent or expired access token
RefreshInvokedNext ==
    /\ ev'.op \in RefreshOps
    /\ ev'.raw = NoRaw
    /\ ev'.op = "ensureValidToken" => needsRefresh(localStorage.accessToken, now)

\* C5: with no refresh token stored, refreshAccessToken returns false at once
\* and sends no request.
C5_Step ==
    (RefreshInvokedNext /\ ~Truthy(localStorage.refreshToken)) =>
        /\ inflight' = inflight
        /\ ev'.done
        /\ ev'.ok = "false"

C5_NoTokenNoRequest == [][C5_Step]_vars

C5_Witness ==
    /\ ev.op = "refreshAccessToken"
    /\ ev.done
    /\ ev.ok = "false"
    /\ ev.raw = NoRaw
    /\ getRefreshToken(Svc) = Null
    /\ inflight = EmptyBag

\* C6: on an absent or expired access token ensureValidToken invokes
\* refreshAccessToken; when that fails it returns null, and when it succeeds it
\* returns the access token read from the store after the refresh.
C6_Step ==
    /\ (ev'.op = "ensureValidToken" /\ ev'.raw = NoRaw
            /\ needsRefresh(localStorage.accessToken, now)) =>
          IF Truthy(localStorage.refreshToken)
          THEN /\ ~ev'.done
               /\ inflight' = Suspend(Call("refresh", "ensure", localStorage.accessToken))
          ELSE /\ ev'.done
               /\ ev'.ok = "false"
               /\ ev'.ret = Null
    /\ (ev'.op = "ensureValidToken" /\ ev'.raw # NoRaw) =>
          /\ ev'.done
          /\ ev'.ok = "false" => ev'.ret = Null
          /\ ev'.ok = "true" => ev'.ret = localStorage'.accessToken

C6_RefreshThenReread == [][C6_Step]_vars

C6_Witness ==
    /\ EnsureReturned
    /\ ev.ok = "true"
    /\ ev.pre = AccessTok(1)
    /\ ev.ret = AccessTok(2)
    /\ getAccessToken(Svc) = AccessTok(2)

\* C7: an ensureValidToken call that refreshes returns only in the step that
\* settles its own request, after the store was written, and every token
\* ensureValidToken returns is the access token the store holds at that moment,
\* whatever other calls are in flight.
C7_Step ==
    /\ (ev'.op = "ensureValidToken" /\ ev'.done /\ ev'.ret # Null) =>
          ev'.ret = localStorage'.accessToken
    /\ \A c \in Pending :
          (c.caller = "ensure" /\ Copies(c, inflight') < Copies(c, inflight)) =>
             /\ ev'.op = "ensureValidToken"
             /\ ev'.done
             /\ ev'.raw # NoRaw
             /\ ev'.pre = c.pre
             /\ ev'.ok = "true" => localStorage'.accessToken = ToStr(ev'.raw.accessToken)
    /\ (ev'.op = "ensureValidToken" /\ ev'.done /\ ev'.raw # NoRaw) =>
          \E c \in Pending : c.caller = "ensure" /\ inflight' = Resume(c)

C7_ReturnsAfterRefresh == [][C7_Step]_vars

C7_Witness ==
    /\ EnsureReturned
    /\ ev.raw # NoRaw
    /\ ev.ret # Null
    /\ ev.ret # ev.pre
    /\ \E c \in Pending : c.op = "refresh"

\* C8: every startRefreshTimer call, the second of two in succession included,
\* leaves exactly one pending refresh timer, a new one; the timers pending before
\* the call are cancelled, and the only timer that ever fires is the one the
\* handle refers to.
C8_Step ==
    /\ ev'.op = "startRefreshTimer" =>
          /\ refreshTimer' # 0
          /\ timers' = {refreshTimer'}
          /\ timers \cap timers' = {}
    /\ (ev'.op = "timer" /\ ev'.raw = NoRaw) =>
          /\ refreshTimer' = refreshTimer
          /\ timers \ timers' = {refreshTimer}

C8_StartTimerIdempotent == [][C8_Step]_vars

C8_Witness ==
    /\ ev.op = "startRefreshTimer"
    /\ ev.rep = 2
    /\ Cardinality(timers) = 1

\* C9: in every reachable state at most one refresh timer is pending, and a
\* pending timer is the one the refreshTimer handle refers to.
C9_AtMostOneTimer ==
    /\ Cardinality(timers) <= 1
    /\ \A t \in timers : t = refreshTimer

C9_Witness ==
    /\ ev.op \in AuthKinds
    /\ ev.done
    /\ ev.ok = "true"
    /\ timers = {refreshTimer}
    /\ \E c \in Pending : c.op = "refresh" /\ c.caller = "timer"

\* a token the decoder cannot decode: no second segment, or a second segment
\* that is not base64, not UTF-8 or not JSON
Undecodable(tok) ==
    \/ Len(tok) < 2
    \/ tok[2].k \in {"empty", "b64bad", "utf8bad", "jsonbad"}

\* a decodable token whose claims carry no exp
LacksExp(tok) == Len(tok) >= 2 /\ tok[2].k \in {"jnull", "scalar", "obj"}

\* C10: isTokenExpired is true of a null or empty token, of a token that cannot
\* be decoded, and of a decodable token without an exp claim.
C10_ExpiredWhenUnreadable ==
    (cRes # "none" /\ (cTok = Null \/ cTok = EmptyStr \/ Undecodable(cTok) \/ LacksExp(cTok)))
        => cRes = "true"

C10_Witness ==
    /\ cRes = "true"
    /\ Len(cTok) = 3
    /\ cTok[2].k = "obj"
    /\ now = 0

\* a decodable token whose claims carry a numeric exp
CarriesExp(tok) == Len(tok) >= 2 /\ tok[2].k = "exp"

\* C11: for a decodable token carrying the expiry claim e (zero and negative e
\* included) and any clock value, isTokenExpired is true exactly when
\* now >= e * 1000; the instant now = e * 1000 counts as expired.
C11_ExpiredIffPastExp ==
    (cRes # "none" /\ CarriesExp(cTok)) =>
        (cRes = "true" <=> now >= cTok[2].e * 1000)

C11_Witness ==
    /\ cRes = "true"
    /\ CarriesExp(cTok)
    /\ cTok[2].e = 1
    /\ now = 1000

\* input the decoder is specified to reject: a number of segments other than
\* three, or a middle segment that is not base64, not UTF-8 or not JSON
Malformed(tok) ==
    \/ Len(tok) # 3
    \/ tok[2].k \in {"empty", "b64bad", "utf8bad", "jsonbad"}

\* C12: decodeJWT returns null, without throwing, on every malformed input:
\* a token of one, two, four or more segments, or one whose middle segment is
\* not valid base64, not valid UTF-8 or not parseable JSON.
C12_MalformedDecodesNull ==
    (ev.op = "decodeJWT" /\ Malformed(cTok)) => ev.ok = "null"

\* C13: when the stored profile entry is not parseable JSON, getUser returns
\* null without throwing and removes the entry, so that the profile key reads
\* as absent afterwards; the stored access and refresh tokens stay as they were.
C13_Step ==
    (ev'.op = "getUser" /\ hasWindow /\ localStorage.user.k = "corrupt") =>
        /\ ev'.done
        /\ ev'.usr = NoUser
        /\ localStorage'.user = NoItem
        /\ localStorage'.accessToken = localStorage.accessToken
        /\ localStorage'.refreshToken = localStorage.refreshToken

C14_Step ==
    ~hasWindow =>
        /\ localStorage' = localStorage
        /\ ev'.op \in {"getAccessToken", "getRefreshToken"} => ev'.ret = Null
        /\ ev'.op = "getUser" => ev'.usr = NoUser
        /\ ev'.op = "refreshAccessToken" =>
              ev'.done /\ ev'.ok = "false" /\ inflight' = inflight
        /\ ev'.op = "ensureValidToken" =>
              ev'.done /\ ev'.ret = Null /\ inflight' = inflight

C14_NoWindowNoOp == [][C14_Step]_vars

C14_Witness ==
    /\ ~hasWindow
    /\ ev.op = "ensureValidToken"
    /\ ev.done
    /\ ev.ret = Null
    /\ localStorage.accessToken = AccessTok(MaxExp)
    /\ localStorage.refreshToken = RefreshTok(1)
    /\ now = 0

\* C15: one refreshAccessToken call, made directly or by ensureValidToken,
\* sends at most one request: invoking it adds at most one call in flight, and
\* the step that settles its request sends nothing more; when the request
\* failed, that same step leaves no token, no profile and no timer.
C15_Step ==
    /\ ev'.op \in RefreshOps /\ ev'.raw = NoRaw =>
          NumInflight' <= NumInflight + 1
    /\ RefreshSettledNext =>
          /\ NumInflight' = NumInflight - 1
          /\ ev'.ok = "false" =>
                /\ localStorage' = [accessToken |-> Null, refreshToken |-> Null,
                                     user |-> NoItem]
                /\ refreshTimer' = 0
                /\ timers' = {}

C15_NoRetry == [][C15_Step]_vars

C15_Witness ==
    /\ RefreshSettled
    /\ ev.op = "ensureValidToken"
    /\ ev.ok = "false"
    /\ ev.raw.kind = "neterr"
    /\ StoreEmpty
    /\ inflight = EmptyBag

\* number of characters of the password
PwdLength == Len(cPwd)

PwdHasUpper == \E i \in 1..Len(cPwd) : cPwd[i] = "A"

PwdHasLower == \E i \in 1..Len(cPwd) : cPwd[i] = "a"

PwdHasDigit == \E i \in 1..Len(cPwd) : cPwd[i] = "1"

\* a character that is none of A-Z, a-z, 0-9
PwdHasSpecial == \E i \in 1..Len(cPwd) : cPwd[i] \notin {"A", "a", "1"}

\* C16: validatePassword answers valid exactly for a password of at least 8
\* characters with an uppercase letter, a lowercase letter, a digit and a
\* non-alphanumeric character; otherwise it answers with the error of the first
\* failing rule in the order length, uppercase, lowercase, digit, special.
C16_PasswordPolicy ==
    cRes # "none" =>
        /\ cRes = "valid" <=>
              (PwdLength >= 8 /\ PwdHasUpper /\ PwdHasLower /\ PwdHasDigit /\ PwdHasSpecial)
        /\ cRes = "minlen" <=> PwdLength < 8
        /\ cRes = "upper" <=> (PwdLength >= 8 /\ ~PwdHasUpper)
        /\ cRes = "lower" <=> (PwdLength >= 8 /\ PwdHasUpper /\ ~PwdHasLower)
        /\ cRes = "digit" <=>
              (PwdLength >= 8 /\ PwdHasUpper /\ PwdHasLower /\ ~PwdHasDigit)
        /\ cRes = "special" <=>
              (PwdLength >= 8 /\ PwdHasUpper /\ PwdHasLower /\ PwdHasDigit
                  /\ ~PwdHasSpecial)

\* a 7-character password without an uppercase letter gets the length error
C16_Witness ==
    /\ cRes = "minlen"
    /\ PwdLength = 7
    /\ ~PwdHasUpper
    /\ PwdHasLower /\ PwdHasDigit /\ PwdHasSpecial

\* the two requests of googleLogin, as calls in flight
GooglePrimary == Call("auth", "googleLogin", Null)

GoogleSecond == Call("auth", "googleFallback", Null)

\* C17: googleLogin posts to /auth/login/google; if and only if that request
\* fails with status 404 it posts once to /auth/google and its outcome is that
\* of the second request; any other failure of the first request is propagated
\* with no second request, and the second request is never repeated.
C17_Step ==
    /\ Copies(GoogleSecond, inflight') > Copies(GoogleSecond, inflight) =>
          /\ ev'.raw.kind = "http404"
          /\ inflight' = (inflight (-) SetToBag({GooglePrimary})) (+) SetToBag({GoogleSecond})
          /\ GooglePrimary \in Pending
          /\ ~ev'.done
    /\ Copies(GooglePrimary, inflight') < Copies(GooglePrimary, inflight) =>
          IF ev'.raw.kind = "http404"
          THEN Copies(GoogleSecond, inflight') = Copies(GoogleSecond, inflight) + 1
          ELSE /\ inflight' = inflight (-) SetToBag({GooglePrimary})
               /\ ev'.op = "googleLogin"
               /\ ev'.done
               /\ ev'.ok = (IF AuthCall(ev'.raw).ok THEN "true" ELSE "false")
    /\ Copies(GoogleSecond, inflight') < Copies(GoogleSecond, inflight) =>
          /\ inflight' = inflight (-) SetToBag({GoogleSecond})
          /\ ev'.op = "googleLogin"
          /\ ev'.done
          /\ ev'.ok = (IF AuthCall(ev'.raw).ok THEN "true" ELSE "false")

C17_GoogleFallbackOn404 == [][C17_Step]_vars

C17_Witness ==
    /\ ev.op = "googleLogin"
    /\ ev.done
    /\ ev.rep = 2
    /\ ev.ok = "false"
    /\ ev.raw.kind = "http"
    /\ inflight = EmptyBag

\* C18: after a successful profile fetch (refreshUser through getMe) the
\* profile in the store and in the session context is the user record the
\* server returned, its role the role the server reported.
C18_FetchStoresServerUser ==
    (ev.op \in {"refreshUser", "refreshUserSilent"} /\ ev.done /\ ev.ok = "true") =>
        /\ user = normalizeUser(ev.raw.user)
        /\ localStorage.user = Item("json", normalizeUser(ev.raw.user))
        /\ user.role = ev.raw.user.role

\* C19: after a successful login, register or googleLogin the store holds the
\* access token, the refresh token and the profile of the response, the context
\* user is that profile, and exactly one refresh timer is pending, a new one,
\* started with the tokens already in the store.
C19_Step ==
    (ev'.op \in AuthKinds /\ ev'.done /\ ev'.ok = "true" /\ RawIsSuccess(ev'.raw)) =>
        /\ localStorage'.accessToken = ev'.raw.accessToken
        /\ localStorage'.refreshToken = ev'.raw.refreshToken
        /\ localStorage'.user = Item("json", normalizeUser(ev'.raw.user))
        /\ user' = normalizeUser(ev'.raw.user)
        /\ timers' = {refreshTimer'}
        /\ refreshTimer' \notin timers \cup {0, refreshTimer}

C19_LoginEstablishesSession == [][C19_Step]_vars

C19_Witness ==
    /\ ev.op = "register"
    /\ ev.done
    /\ ev.ok = "true"
    /\ ev.raw.accessToken = AccessTok(MaxExp)
    /\ localStorage.accessToken = AccessTok(MaxExp)
    /\ user = normalizeUser(ServerUser(MaxExp))
    /\ timers = {refreshTimer}

\* C20: logout ends with the session cleared (no access token, no refresh
\* token, no profile, no timer, context user null) whether the remote call
\* succeeded, failed or was skipped; the remote call is made exactly when a
\* refresh token is stored.
C20_Step ==
    /\ (ev'.op = "logout" /\ ev'.done) =>
          /\ localStorage' = [accessToken |-> Null, refreshToken |-> Null, user |-> NoItem]
          /\ refreshTimer' = 0
          /\ timers' = {}
          /\ user' = NoUser
    /\ (ev'.op = "logout" /\ ev'.ok = "none") =>
          IF Truthy(localStorage.refreshToken)
          THEN ~ev'.done /\ inflight' = Suspend(Call("logout", "logout", Null))
          ELSE ev'.done /\ inflight' = inflight
    /\ (ev'.op = "logout" /\ ev'.ok # "none") =>
          /\ Call("logout", "logout", Null) \in Pending
          /\ inflight' = Resume(Call("logout", "logout", Null))

C20_LogoutClearsSession == [][C20_Step]_vars

C20_Witness ==
    /\ ev.op = "logout"
    /\ ev.done
    /\ ev.ok = "false"
    /\ StoreEmpty
    /\ user = NoUser
    /\ refreshTimer = 0
    /\ timers = {}

\* a refresh timer is pending or a refresh request is in flight
RefreshAlive == timers # {} \/ \E c \in Pending : c.op = "refresh"

RefreshAliveNext == timers' # {} \/ \E c \in BagToSet(inflight') : c.op = "refresh"

\* C22: the firing timer invokes refreshAccessToken; when that refresh succeeds
\* a new timer is pending afterwards, when it fails none is; so a timer stays
\* pending or a refresh stays in flight as long as no refresh fails and nobody
\* logs out.
C22_Step ==
    /\ (ev'.op = "timer" /\ ev'.raw = NoRaw) =>
          IF Truthy(localStorage.refreshToken)
          THEN /\ ~ev'.done
               /\ inflight' = Suspend(Call("refresh", "timer", Null))
          ELSE /\ ev'.done
               /\ ev'.ok = "false"
               /\ timers' = {}
    /\ (ev'.op = "timer" /\ ev'.raw # NoRaw) =>
          /\ ev'.done
          /\ ev'.ok = "true" =>
                timers' = {refreshTimer'} /\ refreshTimer' \notin timers \cup {0}
          /\ ev'.ok = "false" => timers' = {}
    /\ (/\ RefreshAlive
        /\ ~(ev'.op \in RefreshOps /\ ev'.done /\ ev'.ok = "false")
        /\ ~(ev'.op = "logout" /\ ev'.done)) => RefreshAliveNext

C22_RefreshRecurs == [][C22_Step]_vars

C22_Witness ==
    /\ ev.op = "timer"
    /\ ev.done
    /\ ev.ok = "true"
    /\ timers = {refreshTimer}
    /\ localStorage.accessToken = AccessTok(MaxExp)
    /\ inflight = EmptyBag

\* C24: refreshUser called with silentFail = true that ends without a profile
\* (no token from ensureValidToken, getMe failing or timing out) leaves the
\* stored tokens, the stored profile and the context user as they were.
C24_Step ==
    (ev'.op = "refreshUserSilent" /\ ev'.done /\ ev'.ok = "false") =>
        /\ localStorage' = localStorage
        /\ user' = user

C24_SilentFailKeepsSession == [][C24_Step]_vars

\* C26: when a login has stored a new session while a refresh request was in
\* flight, the later failure of that request leaves the new tokens, the
\* profile and the pending timer in place.
C26_Step ==
    (/\ ev.op \in AuthKinds /\ ev.done /\ ev.ok = "true"
     /\ \E c \in Pending : c.op = "refresh"
     /\ RefreshSettledNext /\ ev'.ok = "false") =>
        /\ localStorage' = localStorage
        /\ timers' = timers
        /\ refreshTimer' = refreshTimer

C26_LateFailureKeepsNewSession == [][C26_Step]_vars

\* C27: once logout has completed, and with no new login, the store stays
\* empty and no timer is pending, even when a refresh request that was in
\* flight at that moment then succeeds.
C27_Step ==
    (ev.op = "logout" /\ ev.done /\ RefreshSettledNext) =>
        /\ localStorage' = [accessToken |-> Null, refreshToken |-> Null, user |-> NoItem]
        /\ timers' = {}

C27_LogoutIsFinal == [][C27_Step]_vars

\* C30: with a stored access token that is not expired, ensureValidToken
\* returns exactly that token, sends no request, writes nothing to the store
\* and leaves the refresh timer as it is.
C30_Step ==
    (/\ ev'.op = "ensureValidToken" /\ ev'.raw = NoRaw
     /\ hasWindow
     /\ Truthy(localStorage.accessToken)
     /\ ~isTokenExpired(localStorage.accessToken, now)) =>
        /\ ev'.done
        /\ ev'.ret = localStorage.accessToken
        /\ inflight' = inflight
        /\ localStorage' = localStorage
        /\ refreshTimer' = refreshTimer
        /\ timers' = timers

C30_ValidTokenNoEffect == [][C30_Step]_vars

C30_Witness ==
    /\ ev.op = "ensureValidToken"
    /\ ev.done
    /\ ev.raw = NoRaw
    /\ ev.ret = AccessTok(MaxExp)
    /\ timers = {refreshTimer}
    /\ localStorage.user # NoItem

ProtectedPaths == {"/dashboard/client", "/dashboard/admin"}

\* C23: the route guard never renders its children while the session is
\* loading or unauthenticated, nor the admin route's children for a user who is
\* not admin; it sends an unauthenticated visitor to "/" and an authenticated
\* non-admin on the admin route to "/dashboard/client".
C23_Step ==
    /\ nav'.view = "children" =>
          /\ ~isLoading'
          /\ user' # NoUser
          /\ nav'.path = "/dashboard/admin" => user'.role = "admin"
    /\ (nav.view = "none" /\ nav.path \in ProtectedPaths /\ ~isLoading /\ user = NoUser) =>
          nav'.path = "/"
    /\ (nav.view = "none" /\ nav.path = "/dashboard/admin" /\ ~isLoading
            /\ user # NoUser /\ user.role # "admin") =>
          nav'.path = "/dashboard/client"
    /\ (nav.view = "none" /\ nav.path \in ProtectedPaths /\ isLoading) =>
          nav'.view = "spinner"

C23_GuardNeverLeaks == [][C23_Step]_vars

C23_Witness ==
    /\ user # NoUser
    /\ user.role = "customer"
    /\ nav.path = "/dashboard/client"
    /\ nav.view = "children"
    /\ "/dashboard/admin" \in nav.visited

\* C25: for an authenticated user of any role, following redirectToDashboard
\* and the guard's redirects from any path ends, after finitely many
\* redirects, at a route whose children are rendered: no navigation returns to
\* a path it was redirected from.
C25_NoRedirectCycle ==
    (user # NoUser /\ ~isLoading) => nav.view # "loop"

\* the form's data pass every client-side check: names of at least 2
\* characters, a valid email, a birth date that is set and not in the future,
\* matching passwords, and the password policy
FormPasses ==
    /\ Len(Trim(form.firstName)) >= 2
    /\ Len(Trim(form.lastName)) >= 2
    /\ validateEmail(form.email) = "valid"
    /\ form.birthDate \in 1..Today
    /\ form.password = form.confirmPassword
    /\ validatePassword(form.password) = "valid"

\* C29: submitting the registration form with data that pass every
\* client-side check sends one request to the register endpoint; when a check
\* fails, no request is sent.
C29_ValidFormSendsRegister ==
    ev.op = "submit" =>
        IF FormPasses
        THEN inflight = SetToBag({Call("auth", "register", Null)})
        ELSE inflight = EmptyBag

\* C21: session initialisation always ends its loading phase: on every path
\* of initializeAuth, every request being answered or timing out, isLoading
\* eventually becomes false.
C21_LoadingEnds == <>(isLoading = FALSE)

C21_Witness ==
    /\ isLoading = FALSE
    /\ boot = "done"
    /\ ev.op = "initializeAuth"
    /\ ev.raw.kind = "json"
    /\ ev.usr # NoUser
    /\ timers = {refreshTimer}

\* C28: once initialisation has finished, the context holds a user only if an
\* access token is in the store; a stored profile without tokens does not
\* authenticate, and a refresh failure that clears the store clears the
\* context user too.
C28_AuthenticatedOnlyWithToken ==
    (boot = "done" /\ ~isLoading /\ user # NoUser) => Truthy(localStorage.accessToken)

============================================================================
